---------------------------- MODULE Spec2Model ----------------------------
(***************************************************************************)
(* Model of the Library API (backend/main.py): one SQLite table `books`    *)
(* behind five FastAPI handlers, with the request models BookCreate and    *)
(* BookUpdate validated by the framework before a handler body runs.       *)
(*                                                                         *)
(* Data representation.                                                    *)
(*  - A string is a run-length encoded sequence of runs [c, n] (character  *)
(*    c repeated n >= 1 times, adjacent runs of different characters), so  *)
(*    that strings of 200 characters are ordinary values.  <<>> is "".     *)
(*  - A JSON value / SQL column value is Null (<<>>) or Some(v) (<<v>>).   *)
(*  - A JSON request body is a function from the keys it holds to values.  *)
(*  - A table row is a record with the six columns of `books`.             *)
(***************************************************************************)
EXTENDS Integers, Sequences, FiniteSets, TLC

VARIABLES
    books,      \* the rows of table `books`
    seq,        \* sqlite_sequence.seq for `books` (AUTOINCREMENT): largest rowid ever used
    assigned,   \* history: the ids create_book has returned (201) so far
    deleted,    \* history: the ids delete_book has deleted (204) so far
    req,        \* the HTTP request last received
    resp        \* its response; Pending while the request is in flight

vars == <<books, seq, assigned, deleted, req, resp>>

---------------------------------------------------------------------------
(* Bounds of the model *)

MaxCreates == 2

---------------------------------------------------------------------------
(* Field constraints of BookCreate / BookUpdate *)

MIN_LENGTH == 1
TITLE_MAX == 200
AUTHOR_MAX == 100
ISBN_MAX == 20
YEAR_GE == 1000
YEAR_LE == 2100
GENRE_MAX == 50

Fields == {"title", "author", "isbn", "year", "genre"}

---------------------------------------------------------------------------
(* Values *)

Null == <<>>
Some(v) == <<v>>

\* the string made of character c repeated n times
Rep(c, n) == <<[c |-> c, n |-> n]>>

\* len(s)
RECURSIVE StrLen(_)
StrLen(s) == IF s = <<>> THEN 0 ELSE Head(s).n + StrLen(Tail(s))

\* str.isspace() on the characters the model uses
IsSpace(c) == c \in {" ", "\t", "\n"}

RECURSIVE LStrip(_)
LStrip(s) ==
    IF s = <<>> THEN <<>>
    ELSE IF IsSpace(Head(s).c) THEN LStrip(Tail(s))
    ELSE s

RECURSIVE RStrip(_)
RStrip(s) ==
    IF s = <<>> THEN <<>>
    ELSE IF IsSpace(s[Len(s)].c) THEN RStrip(SubSeq(s, 1, Len(s) - 1))
    ELSE s

\* str.strip(): leading and trailing whitespace removed
strip(s) == RStrip(LStrip(s))

\* code points of the characters the model uses
Ord(c) ==
    CASE c = "\t" -> 9
      [] c = "\n" -> 10
      [] c = " " -> 32
      [] c = "a" -> 97
      [] c = "b" -> 98
      [] c = "c" -> 99
      [] c = "d" -> 100
      [] c = "g" -> 103
      [] c = "i" -> 105

\* s < t under SQLite's BINARY collation (memcmp, then the shorter first)
RECURSIVE StrLess(_, _)
StrLess(s, t) ==
    IF t = <<>> THEN FALSE
    ELSE IF s = <<>> THEN TRUE
    ELSE IF Head(s).c # Head(t).c THEN Ord(Head(s).c) < Ord(Head(t).c)
    ELSE IF Head(s).n = Head(t).n THEN StrLess(Tail(s), Tail(t))
    ELSE IF Head(s).n < Head(t).n
         THEN StrLess(Tail(s), <<[c |-> Head(t).c, n |-> Head(t).n - Head(s).n]>> \o Tail(t))
         ELSE StrLess(<<[c |-> Head(s).c, n |-> Head(s).n - Head(t).n]>> \o Tail(s), Tail(t))

---------------------------------------------------------------------------
(* Validation: pydantic runs a field's Field(...) constraints on the value  *)
(* as received and then the field_validator on the value that passed.      *)

Ok(v) == [ok |-> TRUE, v |-> v]
Fail == [ok |-> FALSE, v |-> Null]

\* the length limits applied to the trimmed value instead of the value received
StrConstraint_stripped(s, lo, hi) == lo <= StrLen(strip(s)) /\ StrLen(strip(s)) <= hi

\* Field(min_length=lo, max_length=hi) on a str
StrConstraint(s, lo, hi) == lo <= StrLen(s) /\ StrLen(s) <= hi

\* Field(ge=YEAR_GE, le=YEAR_LE) on an int
YearConstraint(y) == YEAR_GE <= y /\ y <= YEAR_LE

\* BookCreate.not_empty
not_empty(v) ==
    IF v = <<>> \/ strip(v) = <<>> THEN Fail ELSE Ok(Some(strip(v)))

\* not_empty_if_provided without its whitespace check
not_empty_if_provided_unchecked(v) ==
    IF v # Null /\ v[1] # <<>> THEN Ok(Some(strip(v[1]))) ELSE Ok(v)

\* BookUpdate.not_empty_if_provided
not_empty_if_provided(v) ==
    IF v # Null /\ strip(v[1]) = <<>> THEN Fail
    ELSE IF v # Null /\ v[1] # <<>> THEN Ok(Some(strip(v[1])))
    ELSE Ok(v)

\* a required str field with a validator (BookCreate.title, BookCreate.author)
RequiredStr(body, f, hi) ==
    IF f \notin DOMAIN body THEN Fail
    ELSE IF body[f] = Null THEN Fail
    ELSE IF ~StrConstraint(body[f][1], MIN_LENGTH, hi) THEN Fail
    ELSE not_empty(body[f][1])

\* an Optional[str] field with a validator (BookUpdate.title, BookUpdate.author)
OptionalValidatedStr(v, hi) ==
    IF v = Null THEN not_empty_if_provided(v)
    ELSE IF ~StrConstraint(v[1], MIN_LENGTH, hi) THEN Fail
    ELSE not_empty_if_provided(v)

\* an Optional[str] field with max_length only (isbn, genre)
OptionalStr(v, hi) ==
    IF v = Null THEN Ok(Null)
    ELSE IF ~StrConstraint(v[1], 0, hi) THEN Fail
    ELSE Ok(v)

\* Optional[int] year
OptionalYear(v) ==
    IF v = Null THEN Ok(Null)
    ELSE IF ~YearConstraint(v[1]) THEN Fail
    ELSE Ok(v)

\* the value of key f, None (the parameter's default) when it is not given
Given(body, f) == IF f \in DOMAIN body THEN body[f] ELSE Null

\* BookCreate(**body): the validated model, or a validation error
BookCreate(body) ==
    LET title == RequiredStr(body, "title", TITLE_MAX)
        author == RequiredStr(body, "author", AUTHOR_MAX)
        isbn == OptionalStr(Given(body, "isbn"), ISBN_MAX)
        year == OptionalYear(Given(body, "year"))
        genre == OptionalStr(Given(body, "genre"), GENRE_MAX)
    IN  IF title.ok /\ author.ok /\ isbn.ok /\ year.ok /\ genre.ok
        THEN Ok([title |-> title.v, author |-> author.v, isbn |-> isbn.v,
                 year |-> year.v, genre |-> genre.v])
        ELSE Fail

\* one field of BookUpdate
UpdateField(f, v) ==
    CASE f = "title" -> OptionalValidatedStr(v, TITLE_MAX)
      [] f = "author" -> OptionalValidatedStr(v, AUTHOR_MAX)
      [] f = "isbn" -> OptionalStr(v, ISBN_MAX)
      [] f = "year" -> OptionalYear(v)
      [] f = "genre" -> OptionalStr(v, GENRE_MAX)

\* BookUpdate(**body): the validated model as model_dump(exclude_unset=True)
\* gives it (the keys the body set, each with its validated value), or an error
BookUpdate(body) ==
    IF \A f \in DOMAIN body : UpdateField(f, body[f]).ok
    THEN Ok([f \in DOMAIN body |-> UpdateField(f, body[f]).v])
    ELSE Fail

\* to_native: None, str and int are returned as they are
to_native(value) == IF value = Null THEN Null ELSE value


---------------------------------------------------------------------------
(* The table `books` and the statements the handlers run on it *)

Max(a, b) == IF a >= b THEN a ELSE b

RECURSIVE MaxOf(_)
MaxOf(S) == IF S = {} THEN 0 ELSE LET x == CHOOSE x \in S : TRUE IN Max(x, MaxOf(S \ {x}))

Ids(bks) == {r.id : r \in bks}

\* id INTEGER PRIMARY KEY without AUTOINCREMENT: one more than the largest rowid
\* now in the table
NextRowid_no_autoincrement(bks, s) == MaxOf(Ids(bks)) + 1

\* id INTEGER PRIMARY KEY AUTOINCREMENT: the rowid of the next INSERT is one more
\* than the largest rowid the table has ever held (kept in sqlite_sequence)
NextRowid(bks, s) == Max(s, MaxOf(Ids(bks))) + 1

\* INSERT INTO books (title, author, isbn, year, genre) VALUES (?, ?, ?, ?, ?)
Insert(bks, id, title, author, isbn, year, genre) ==
    bks \cup {[id |-> id, title |-> title, author |-> author, isbn |-> isbn,
               year |-> year, genre |-> genre]}

\* SELECT * FROM books WHERE id = ?  (fetchone: the row, or none)
Select(bks, id) == {r \in bks : r.id = id}

\* the SET clauses update_book builds: the dumped fields whose value is not None
SetClauses(update_data) ==
    LET set == {f \in DOMAIN update_data : update_data[f] # Null}
    IN  [f \in set |-> to_native(update_data[f])]

\* UPDATE books SET f = ?, ... without its WHERE clause
Update_no_where(bks, updates, id) ==
    {[c \in DOMAIN r |-> IF c \in DOMAIN updates THEN updates[c] ELSE r[c]] : r \in bks}

\* UPDATE books SET f = ?, ... WHERE id = ?
Update(bks, updates, id) ==
    {IF r.id = id
     THEN [c \in DOMAIN r |-> IF c \in DOMAIN updates THEN updates[c] ELSE r[c]]
     ELSE r : r \in bks}

\* DELETE FROM books WHERE id = ?
Delete(bks, id) == {r \in bks : r.id # id}

\* the characters of s, one by one
RECURSIVE Chars(_)
Chars(s) ==
    IF s = <<>> THEN <<>>
    ELSE [k \in 1..Head(s).n |-> Head(s).c] \o Chars(Tail(s))

\* column LIKE '%pattern%', for a pattern without the wildcards % and _ and
\* text without upper-case letters: the column is not NULL and contains the pattern
Like(column, pattern) ==
    /\ column # Null
    /\ LET text == Chars(column[1])
           p == Chars(pattern[1])
       IN  \E k \in 0..(Len(text) - Len(p)) : SubSeq(text, k + 1, k + Len(p)) = p

\* `if search:` on an Optional[str] query parameter: given and not empty
Truthy(param) == param # Null /\ param[1] # <<>>

\* ... ORDER BY title ASC: every order of the rows that is ascending by title
\* (rows of equal title come in either order)
OrderByTitle(bks) ==
    LET n == Cardinality(bks)
    IN  {s \in [1..n -> bks] :
            /\ \A i, j \in 1..n : i # j => s[i] # s[j]
            /\ \A i, j \in 1..n : i < j => ~StrLess(s[j].title[1], s[i].title[1])}

---------------------------------------------------------------------------
(* Requests and responses *)

NoBody == [f \in {} |-> Null]

Pending == [status |-> 0, body |-> <<>>]

\* a response: its status code and the Book objects of its body
Response(status, rows) == [status |-> status, body |-> rows]

Request(op, id, body) == [op |-> op, id |-> id, body |-> body]

\* fetchone() of a SELECT ... WHERE id = ? that found a row
FetchOne(rows) == CHOOSE r \in rows : TRUE

---------------------------------------------------------------------------
(* Handlers, each as the function from the table (and the request) to the  *)
(* response and the table it leaves.  The request model of create_book and *)
(* update_book is validated before the handler body runs: a validation     *)
(* error is answered 422 without entering it.                              *)

\* get_books with the genre clause appended whether or not a genre is given:
\* `genre LIKE '%%'` is not true of a NULL genre
get_books_genre_like(bks, search, genre, author) ==
    LET rows == {r \in bks :
                    /\ Truthy(search) => (Like(r.title, search) \/ Like(r.author, search))
                    /\ Like(r.genre, IF Truthy(genre) THEN genre ELSE Some(<<>>))
                    /\ Truthy(author) => Like(r.author, author)}
    IN  {Response(200, ordered) : ordered \in OrderByTitle(rows)}

\* GET /api/books?search=&genre=&author=: the responses it can give
get_books(bks, search, genre, author) ==
    LET rows == {r \in bks :
                    /\ Truthy(search) => (Like(r.title, search) \/ Like(r.author, search))
                    /\ Truthy(genre) => Like(r.genre, genre)
                    /\ Truthy(author) => Like(r.author, author)}
    IN  {Response(200, ordered) : ordered \in OrderByTitle(rows)}

\* GET /api/books/{book_id}
get_book(bks, book_id) ==
    LET book == Select(bks, book_id)
    IN  IF book = {} THEN Response(404, <<>>) ELSE Response(200, <<FetchOne(book)>>)

\* create_book running its INSERT on the body as received, and validating after
create_book_insert_first(bks, s, body) ==
    LET book == BookCreate(body)
        lastrowid == NextRowid(bks, s)
        inserted == Insert(bks, lastrowid, Given(body, "title"), Given(body, "author"),
                           Given(body, "isbn"), Given(body, "year"), Given(body, "genre"))
    IN  [books |-> inserted, seq |-> Max(s, lastrowid),
         resp |-> IF book.ok
                  THEN Response(201, <<FetchOne(Select(inserted, lastrowid))>>)
                  ELSE Response(422, <<>>)]

\* POST /api/books
create_book(bks, s, body) ==
    LET book == BookCreate(body)
    IN  IF ~book.ok
        THEN [books |-> bks, seq |-> s, resp |-> Response(422, <<>>)]
        ELSE LET lastrowid == NextRowid(bks, s)
                 inserted == Insert(bks, lastrowid,
                                    to_native(book.v.title), to_native(book.v.author),
                                    to_native(book.v.isbn), to_native(book.v.year),
                                    to_native(book.v.genre))
                 new_book == FetchOne(Select(inserted, lastrowid))
             IN  [books |-> inserted, seq |-> Max(s, lastrowid),
                  resp |-> Response(201, <<new_book>>)]

\* update_book answering with the row it fetched before the UPDATE
update_book_stale(bks, book_id, body) ==
    LET book == BookUpdate(body)
        existing == Select(bks, book_id)
    IN  IF ~book.ok THEN [books |-> bks, resp |-> Response(422, <<>>)]
        ELSE IF existing = {} THEN [books |-> bks, resp |-> Response(404, <<>>)]
        ELSE LET updates == SetClauses(book.v)
                 updated == IF DOMAIN updates # {}
                            THEN Update(bks, updates, book_id)
                            ELSE bks
             IN  [books |-> updated, resp |-> Response(200, <<FetchOne(existing)>>)]

\* update_book with the existence check ahead of the body's validation
update_book_exists_first(bks, book_id, body) ==
    LET book == BookUpdate(body)
        existing == Select(bks, book_id)
    IN  IF existing = {} THEN [books |-> bks, resp |-> Response(404, <<>>)]
        ELSE IF ~book.ok THEN [books |-> bks, resp |-> Response(422, <<>>)]
        ELSE LET updates == SetClauses(book.v)
                 updated == IF DOMAIN updates # {}
                            THEN Update(bks, updates, book_id)
                            ELSE bks
             IN  [books |-> updated,
                  resp |-> Response(200, <<FetchOne(Select(updated, book_id))>>)]

\* PUT /api/books/{book_id}
update_book(bks, book_id, body) ==
    LET book == BookUpdate(body)
        existing == Select(bks, book_id)
    IN  IF ~book.ok THEN [books |-> bks, resp |-> Response(422, <<>>)]
        ELSE IF existing = {} THEN [books |-> bks, resp |-> Response(404, <<>>)]
        ELSE LET updates == SetClauses(book.v)
                 updated == IF DOMAIN updates # {}
                            THEN Update(bks, updates, book_id)
                            ELSE bks
                 updated_book == FetchOne(Select(updated, book_id))
             IN  [books |-> updated, resp |-> Response(200, <<updated_book>>)]

\* delete_book without its commit: the DELETE is rolled back when the connection closes
delete_book_uncommitted(bks, book_id) ==
    LET existing == Select(bks, book_id)
    IN  IF existing = {} THEN [books |-> bks, resp |-> Response(404, <<>>)]
        ELSE [books |-> bks, resp |-> Response(204, <<>>)]

\* DELETE /api/books/{book_id}
delete_book(bks, book_id) ==
    LET existing == Select(bks, book_id)
    IN  IF existing = {} THEN [books |-> bks, resp |-> Response(404, <<>>)]
        ELSE [books |-> Delete(bks, book_id), resp |-> Response(204, <<>>)]

---------------------------------------------------------------------------
(* Steps: a request arrives; the route's handler answers it.  A handler is *)
(* an `async def` without an await, so it runs from start to end before    *)
(* the next request is looked at.                                          *)

\* the request `r` arrives while no other is in flight
Receive(r) ==
    /\ resp # Pending
    /\ req' = r
    /\ resp' = Pending
    /\ UNCHANGED <<books, seq, assigned, deleted>>

HandleList ==
    /\ req.op = "list" /\ resp = Pending
    /\ resp' \in get_books(books, Given(req.body, "search"), Given(req.body, "genre"),
                           Given(req.body, "author"))
    /\ UNCHANGED <<books, seq, assigned, deleted, req>>

HandleGet ==
    /\ req.op = "get" /\ resp = Pending
    /\ resp' = get_book(books, req.id)
    /\ UNCHANGED <<books, seq, assigned, deleted, req>>

HandleCreate ==
    /\ req.op = "create" /\ resp = Pending
    /\ LET r == create_book(books, seq, req.body)
       IN  /\ books' = r.books
           /\ seq' = r.seq
           /\ resp' = r.resp
           /\ assigned' = IF r.resp.status = 201
                          THEN assigned \cup {r.resp.body[1].id}
                          ELSE assigned
    /\ UNCHANGED <<deleted, req>>

HandleUpdate ==
    /\ req.op = "update" /\ resp = Pending
    /\ LET r == update_book(books, req.id, req.body)
       IN  /\ books' = r.books
           /\ resp' = r.resp
    /\ UNCHANGED <<seq, assigned, deleted, req>>

HandleDelete ==
    /\ req.op = "delete" /\ resp = Pending
    /\ LET r == delete_book(books, req.id)
       IN  /\ books' = r.books
           /\ resp' = r.resp
           /\ deleted' = IF r.resp.status = 204 THEN deleted \cup {req.id} ELSE deleted
    /\ UNCHANGED <<seq, assigned, req>>

---------------------------------------------------------------------------
(* The requests of the lifecycle specification *)

sA == Rep("a", 1)
sB == Rep("b", 1)
sC == Rep("c", 1)
sD == Rep("d", 1)
sG == Rep("g", 1)
sI == Rep("i", 1)

CreateBodies ==
    { [title |-> Some(Rep(" ", 1) \o sA \o Rep(" ", 1)), author |-> Some(sB),
       isbn |-> Some(sI), year |-> Some(YEAR_GE), genre |-> Some(sG)],
      [title |-> Some(sC), author |-> Some(sD)],
      [title |-> Some(Rep(" ", 2)), author |-> Some(sB)],
      [author |-> Some(sB)],
      [title |-> Some(sC), author |-> Some(sD), year |-> Some(YEAR_LE + 1)] }

UpdateBodies ==
    { NoBody,
      [title |-> Some(Rep(" ", 1) \o sC)],
      [title |-> Some(Rep(" ", 2))],
      [title |-> Null],
      [isbn |-> Null],
      [author |-> Some(sD), year |-> Some(YEAR_LE), genre |-> Null] }

\* the query strings of GET /api/books
ListQueries ==
    {[f \in S |-> r[f]] :
        S \in SUBSET {"search", "genre", "author"},
        r \in [search : {Some(<<>>), Some(sC)}, genre : {Some(sG)}, author : {Some(sD)}]}

\* the ids requests name: every id the store can assign, and one it never does
RequestIds == 1..(MaxCreates + 1)

---------------------------------------------------------------------------
(* The lifecycle specification: a client sends any request, one at a time   *)

\* init_db: CREATE TABLE IF NOT EXISTS books (...), on a fresh database file
init_db ==
    /\ books = {}
    /\ seq = 0

Init ==
    /\ init_db
    /\ assigned = {}
    /\ deleted = {}
    /\ req = Request("none", 0, NoBody)
    /\ resp = Response(200, <<>>)

SendList == \E query \in ListQueries : Receive(Request("list", 0, query))

SendGet == \E id \in RequestIds : Receive(Request("get", id, NoBody))

SendCreate ==
    /\ seq < MaxCreates
    /\ \E body \in CreateBodies : Receive(Request("create", 0, body))

SendUpdate ==
    \E id \in RequestIds, body \in UpdateBodies : Receive(Request("update", id, body))

SendDelete == \E id \in RequestIds : Receive(Request("delete", id, NoBody))

Next ==
    \/ SendList
    \/ SendGet
    \/ SendCreate
    \/ SendUpdate
    \/ SendDelete
    \/ HandleList
    \/ HandleGet
    \/ HandleCreate
    \/ HandleUpdate
    \/ HandleDelete

Spec == Init /\ [][Next]_vars

---------------------------------------------------------------------------
(* The create specification: every create body of the field values below,  *)
(* sent to a fresh store.                                                  *)

\* the JSON objects with any of the five keys, the value of each from its set
Bodies(T, A, I, Y, G) ==
    {[f \in S |-> r[f]] :
        S \in SUBSET Fields, r \in [title : T, author : A, isbn : I, year : Y, genre : G]}

TitleInputs ==
    { Null, Some(<<>>), Some(Rep(" ", 2)), Some(sA),
      Some(Rep(" ", 1) \o sA \o Rep(" ", 1)),
      Some(Rep("a", TITLE_MAX)),
      Some(Rep(" ", 1) \o Rep("a", TITLE_MAX - 1)),
      Some(Rep(" ", 1) \o Rep("a", TITLE_MAX)),
      Some(Rep("a", TITLE_MAX + 1)) }

AuthorInputs ==
    { Null, Some(Rep("\t", 1)), Some(sB),
      Some(Rep("b", AUTHOR_MAX)),
      Some(Rep("b", AUTHOR_MAX) \o Rep(" ", 1)),
      Some(Rep("b", AUTHOR_MAX + 1)) }

IsbnInputs == {Null, Some(<<>>), Some(Rep("i", ISBN_MAX)), Some(Rep("i", ISBN_MAX + 1))}

YearInputs == {Null, Some(YEAR_GE - 1), Some(YEAR_GE), Some(YEAR_LE), Some(YEAR_LE + 1)}

GenreInputs == {Null, Some(Rep("g", GENRE_MAX)), Some(Rep("g", GENRE_MAX + 1))}

AllCreateBodies == Bodies(TitleInputs, AuthorInputs, IsbnInputs, YearInputs, GenreInputs)

InitCreate ==
    /\ init_db
    /\ assigned = {}
    /\ deleted = {}
    /\ req \in {Request("create", 0, body) : body \in AllCreateBodies}
    /\ resp = Pending

NextCreate == HandleCreate

SpecCreate == InitCreate /\ [][NextCreate]_vars

---------------------------------------------------------------------------
(* The update specification: a store holding one book, any book of the     *)
(* field values below, receives any update of the field values below, and  *)
(* the client may send the same request again.                             *)

FieldCreateBodies ==
    {b \in Bodies({Some(Rep(" ", 1) \o sA \o Rep(" ", 1)), Some(sC)}, {Some(sB), Some(sD)},
                  {Some(sI)}, {Some(YEAR_GE)}, {Some(sG)}) :
        {"title", "author"} \subseteq DOMAIN b}

FieldUpdateBodies ==
    Bodies({Null, Some(Rep(" ", 1) \o sC), Some(Rep(" ", 2))},
           {Null, Some(sD \o Rep(" ", 1))},
           {Null, Some(<<>>), Some(Rep("i", ISBN_MAX + 1))},
           {Null, Some(YEAR_LE)},
           {Null, Some(sG \o sI)})

InitFields ==
    \E c \in FieldCreateBodies, id \in 1..2, body \in FieldUpdateBodies :
        LET created == create_book({}, 0, c)
        IN  /\ created.resp.status = 201
            /\ books = created.books
            /\ seq = created.seq
            /\ assigned = {created.resp.body[1].id}
            /\ deleted = {}
            /\ req = Request("update", id, body)
            /\ resp = Pending

\* the client sends the request it sent last once more
Resend == Receive(req)

NextFields ==
    \/ HandleUpdate
    \/ Resend

SpecFields == InitFields /\ [][NextFields]_vars

---------------------------------------------------------------------------
(* Properties *)

\* the request in flight has been answered
Answered == resp # Pending

\* the step in which the handler of route `op` answers the request in flight
Answers(op) == req.op = op /\ resp = Pending /\ resp' # Pending

\* a column value that is a string with at least one character that is not whitespace
NonBlank(v) == v # Null /\ \E k \in 1..Len(v[1]) : ~IsSpace(v[1][k].c)

\* the ids of the Book objects in a response body
BodyIds(rows) == {rows[k].id : k \in 1..Len(rows)}

\* C1: in every reachable state, every stored book has a title and an author
\* that are neither empty nor whitespace-only.
C1_TitleAuthorNonBlank ==
    \A r \in books : NonBlank(r.title) /\ NonBlank(r.author)

\* C1 witness: an update whose title came padded with whitespace has been
\* applied to a stored book.
C1_Witness ==
    /\ req.op = "update" /\ resp.status = 200
    /\ "title" \in DOMAIN req.body
    /\ req.body.title # Null
    /\ strip(req.body.title[1]) # req.body.title[1]
    /\ \E r \in books : r.id = req.id /\ r.title = Some(strip(req.body.title[1]))

\* C2: a successful create returns one Book whose id is a number strictly
\* greater than every id a create returned before (deleted books' ids too).
C2_IdsIncrease ==
    [][(Answers("create") /\ resp'.status = 201) =>
            /\ Len(resp'.body) = 1
            /\ resp'.body[1].id \in Nat
            /\ \A i \in assigned : resp'.body[1].id > i]_vars

\* C2 witness: a create has succeeded after an earlier book was deleted.
C2_Witness ==
    /\ req.op = "create" /\ resp.status = 201
    /\ deleted # {}
    /\ \A i \in deleted : resp.body[1].id > i

\* C3: a successful update of book id leaves unchanged the id of that record,
\* every field of it that the body omits, and every other record; with an
\* empty body the table is unchanged and the answer is the current record.
C3_UpdateFrame ==
    [][(Answers("update") /\ resp'.status = 200) =>
            /\ Ids(books') = Ids(books)
            /\ Cardinality(books') = Cardinality(books)
            /\ \A r \in books : r.id # req.id => r \in books'
            /\ \E old \in books, new \in books' :
                    /\ old.id = req.id
                    /\ new.id = req.id
                    /\ \A f \in Fields \ DOMAIN req.body : new[f] = old[f]
                    /\ DOMAIN req.body = {} => resp'.body = <<old>>
            /\ DOMAIN req.body = {} => books' = books]_vars

\* C3 witness: with two books stored, an update of another key than isbn has
\* changed the title of the book that has an isbn.
C3_Witness ==
    /\ req.op = "update" /\ resp.status = 200
    /\ Cardinality(books) = 2
    /\ "title" \in DOMAIN req.body /\ "isbn" \notin DOMAIN req.body
    /\ resp.body[1].title = Some(sC)
    /\ resp.body[1].isbn = Some(sI)

\* the value the claim expects in column f after a successful update that
\* supplied v for it
Supplied(f, v) == IF f \in {"title", "author"} THEN Some(strip(v[1])) ELSE v

\* C4: after a successful update, for every key of the body with a non-null
\* value, and for isbn, year and genre given as null, the stored record and
\* the returned Book hold the supplied value (title and author trimmed).
C4_UpdateSetsSupplied ==
    (req.op = "update" /\ resp.status = 200) =>
        \A f \in DOMAIN req.body :
            (req.body[f] # Null \/ f \in {"isbn", "year", "genre"}) =>
                /\ resp.body[1][f] = Supplied(f, req.body[f])
                /\ \A r \in books : r.id = req.id => r[f] = Supplied(f, req.body[f])

\* C5: a request answered 404 or 422 changes no stored record, adds none,
\* removes none and consumes no id.
C5_ErrorsChangeNothing ==
    [][(resp = Pending /\ resp'.status \in {404, 422}) =>
            /\ books' = books
            /\ seq' = seq
            /\ assigned' = assigned
            /\ deleted' = deleted
            /\ NextRowid(books', seq') = NextRowid(books, seq)]_vars

\* C5 witness: a create with an invalid body has been answered 422 by a
\* store that holds a book.
C5_Witness ==
    /\ req.op = "create" /\ resp.status = 422
    /\ books # {}

\* the original C6: once a delete of id has succeeded, the id is in no later
\* table state and no later listing, and every later GET, PUT and DELETE on
\* it is answered 404.
C6_Original ==
    [][/\ \A i \in deleted' : i \notin Ids(books')
       /\ \A i \in deleted :
            /\ (Answers("list") => i \notin BodyIds(resp'.body))
            /\ (req.id = i /\ (Answers("get") \/ Answers("update") \/ Answers("delete"))
                    => resp'.status = 404)]_vars

\* C6 as amended: once a delete of id has succeeded, the id is in no later
\* table state and no later listing, every later GET and DELETE on it is
\* answered 404, and every later PUT on it is answered 404 when its body is
\* valid and 422 when it is not.
C6_DeletedStaysGone ==
    [][/\ \A i \in deleted' : i \notin Ids(books')
       /\ \A i \in deleted :
            /\ (Answers("list") => i \notin BodyIds(resp'.body))
            /\ (req.id = i /\ (Answers("get") \/ Answers("delete")) => resp'.status = 404)
            /\ (req.id = i /\ Answers("update") =>
                    resp'.status = IF BookUpdate(req.body).ok THEN 404 ELSE 422)]_vars

\* C6 witness: an update with a valid body of a deleted id has been answered
\* 404 while another book is stored.
C6_Witness ==
    /\ req.op = "update" /\ req.id \in deleted
    /\ resp.status = 404
    /\ books # {}

\* len(s) of the value of key f, with surrounding whitespace removed or not
LenOf(body, f, trimmed) ==
    IF trimmed THEN StrLen(strip(body[f][1])) ELSE StrLen(body[f][1])

\* key f is not in the body, or is null
Absent(body, f) == f \notin DOMAIN body \/ body[f] = Null

OptionalFieldsAccepted(body) ==
    /\ Absent(body, "isbn") \/ LenOf(body, "isbn", FALSE) <= ISBN_MAX
    /\ Absent(body, "year") \/ (body.year[1] >= YEAR_GE /\ body.year[1] <= YEAR_LE)
    /\ Absent(body, "genre") \/ LenOf(body, "genre", FALSE) <= GENRE_MAX

\* the original C7: a create is answered 201 exactly when title has 1 to 200
\* and author 1 to 100 characters after trimming, isbn at most 20, year is
\* in 1000..2100, genre at most 50; every other body is answered 422.
C7_Original ==
    (req.op = "create" /\ Answered) =>
        resp.status =
            IF /\ ~Absent(req.body, "title") /\ ~Absent(req.body, "author")
               /\ LenOf(req.body, "title", TRUE) \in 1..TITLE_MAX
               /\ LenOf(req.body, "author", TRUE) \in 1..AUTHOR_MAX
               /\ OptionalFieldsAccepted(req.body)
            THEN 201 ELSE 422

\* C7 as amended: a create is answered 201 exactly when title has at most 200
\* characters as received and at least 1 after trimming, author at most 100
\* as received and at least 1 after trimming, isbn at most 20, year is in
\* 1000..2100, genre at most 50; every other body is answered 422.
C7_CreateAccepts ==
    (req.op = "create" /\ Answered) =>
        resp.status =
            IF /\ ~Absent(req.body, "title") /\ ~Absent(req.body, "author")
               /\ LenOf(req.body, "title", FALSE) <= TITLE_MAX
               /\ LenOf(req.body, "title", TRUE) >= 1
               /\ LenOf(req.body, "author", FALSE) <= AUTHOR_MAX
               /\ LenOf(req.body, "author", TRUE) >= 1
               /\ OptionalFieldsAccepted(req.body)
            THEN 201 ELSE 422

\* C7 witness: a create whose title has 201 characters as received and 200
\* after trimming, and is valid otherwise, has been answered 422.
C7_Witness ==
    /\ req.op = "create" /\ resp.status = 422
    /\ ~Absent(req.body, "title")
    /\ LenOf(req.body, "title", FALSE) = TITLE_MAX + 1
    /\ LenOf(req.body, "title", TRUE) = TITLE_MAX
    /\ ~Absent(req.body, "author")
    /\ LenOf(req.body, "author", FALSE) = AUTHOR_MAX
    /\ OptionalFieldsAccepted(req.body)

\* C8: for every stored book and every valid update body, the update applied
\* twice in a row leaves the table, and returns the Book, that the update
\* applied once does.
C8_UpdateIdempotent ==
    (req.op = "update" /\ resp = Pending) =>
        LET once == update_book(books, req.id, req.body)
            twice == update_book(once.books, req.id, req.body)
        IN  once.resp.status = 200 =>
                /\ twice.resp.status = 200
                /\ twice.books = once.books
                /\ twice.resp.body = once.resp.body

\* C8 witness: an update that sets a padded title and a year has been applied
\* to the stored book.
C8_Witness ==
    /\ req.op = "update" /\ resp.status = 200
    /\ {"title", "year"} \subseteq DOMAIN req.body
    /\ req.body.title # Null /\ req.body.year # Null
    /\ resp.body[1].title = Some(sC)
    /\ resp.body[1].year = Some(YEAR_LE)

\* a GET /api/books without query parameters
Unfiltered == req.op = "list" /\ DOMAIN req.body = {}

\* C9: an unfiltered listing is answered 200 with exactly the stored books,
\* one entry each with its current values; the stored books are those
\* created and not since deleted, so the list has N items after N creates
\* and no delete, and none before the first create.
C9_ListIsStore ==
    /\ Ids(books) = assigned \ deleted
    /\ Cardinality(books) = Cardinality(Ids(books))
    /\ (Unfiltered /\ Answered) =>
            /\ resp.status = 200
            /\ Len(resp.body) = Cardinality(books)
            /\ {resp.body[k] : k \in 1..Len(resp.body)} = books
            /\ deleted = {} => Len(resp.body) = Cardinality(assigned)

\* C9 witness: a listing has returned two books, one of them without genre.
C9_Witness ==
    /\ Unfiltered /\ resp.status = 200
    /\ Len(resp.body) = 2
    /\ \E k \in 1..2 : resp.body[k].genre = Null

\* C10: an update with an invalid body is answered 422 whether or not the id
\* exists, and 404 exactly when the body is valid and the id does not exist.
C10_ValidationBeforeExistence ==
    (req.op = "update" /\ Answered) =>
        /\ ~BookUpdate(req.body).ok => resp.status = 422
        /\ resp.status = 404 <=> (BookUpdate(req.body).ok /\ req.id \notin Ids(books))

\* C10 witness: an update with an invalid body of an id that does not exist
\* has been answered 422.
C10_Witness ==
    /\ req.op = "update" /\ resp.status = 422
    /\ req.id \notin Ids(books)

===========================================================================
